---- MODULE Spec2Model ----
\* Model of the realtime channel connection manager, the React hook
\* useWebSocket(channelId) of src/hooks/use-websocket.ts.
\*
\* One step of the model is one task of the single-threaded event loop: an
\* effect run (cleanup of the previous effect followed by the new effect body),
\* a WebSocket event handler, a timer callback or a call of sendMessage.
EXTENDS Integers, Sequences, FiniteSets, TLC

VARIABLES
    scope,                \* which slice of the inputs this behaviour explores (fixed in Init)
    channelId,            \* the hook's argument as of the last effect run
    mounted,              \* the component using the hook is mounted
    binds,                \* number of effect runs so far
    storedToken,          \* the credential in localStorage / the cookie
    messages,             \* useState: the visible message list
    isConnected,          \* useState: the connected flag
    error,                \* useState: the exposed error
    socketRef,            \* useRef: index into sockets, 0 = null
    processedMessageIds,  \* useRef: the dedup ledger
    effects,              \* the closures of the effect runs that reached connectWebSocket
    cleanup,              \* index into effects of the registered cleanup, 0 = none
    sockets,              \* every WebSocket constructed so far
    ret,                  \* what the last sendMessage call returned
    inbound,              \* what onmessage did with the last frame it was given
    attempt,              \* the backoff calculation on its own: two attempt numbers
    delay,                \* and the delays computed for them (<<>> before the computation)
    appMessages,          \* ChatMessages: useState messages, the list the application shows
    fetches,              \* ChatMessages: the fetchMessages calls that have not returned
    inputRef              \* ChatInput: the socket of its own useWebSocket instance

vars == <<scope, channelId, mounted, binds, storedToken, messages, isConnected, error,
          socketRef, processedMessageIds, effects, cleanup, sockets, ret, inbound, attempt, delay,
          appMessages, fetches, inputRef>>

\* The variables of the hook, and those of the backoff calculation.
hookVars == <<channelId, mounted, binds, storedToken, messages, isConnected, error,
              socketRef, processedMessageIds, effects, cleanup, sockets, ret, inbound>>
delayVars == <<attempt, delay>>

\* The variables of the components that use the hook.
appVars == <<appMessages, fetches, inputRef>>

-----------------------------------------------------------------------------
\* Bounds of the exploration. A behaviour explores one slice of the inputs:
\*   "retry":  one subscription, enough sockets to run into the retry ceiling
\*   "switch": channel changes, stale closures and their sockets
\*   "chat":   a channel change with live messages and sends
\*   "inbox":  every kind of inbound frame
\*   "auth":   a credential that changes during a subscription
\*   "anon":   a missing credential
\*   "edge":   unusable channel identifiers and every kind of payload
\*   "app":    the hook inside ChatMessages, next to ChatInput, on a transport
\*             that stays up
RetryBinds == 1
RetrySockets == 7
SwitchBinds == 2
SwitchSockets == 3
ChatBinds == 2
ChatSockets == 2
InboxBinds == 1
InboxSockets == 1
AuthBinds == 1
AuthSockets == 2
AnonBinds == 2
AnonSockets == 1
AppBinds == 2
AppSockets == 2
EdgeBinds == 2
EdgeSockets == 1
MaxSent == 2
MaxList == 2

Scopes == {"retry", "switch", "chat", "inbox", "auth", "anon", "edge"}

MaxBinds == CASE scope = "retry" -> RetryBinds
              [] scope = "switch" -> SwitchBinds
              [] scope = "chat" -> ChatBinds
              [] scope = "inbox" -> InboxBinds
              [] scope = "auth" -> AuthBinds
              [] scope = "anon" -> AnonBinds
              [] scope = "app" -> AppBinds
              [] OTHER -> EdgeBinds

MaxSockets == CASE scope = "retry" -> RetrySockets
                [] scope = "switch" -> SwitchSockets
                [] scope = "chat" -> ChatSockets
                [] scope = "inbox" -> InboxSockets
                [] scope = "auth" -> AuthSockets
                [] scope = "anon" -> AnonSockets
                [] scope = "app" -> AppSockets
                [] OTHER -> EdgeSockets

-----------------------------------------------------------------------------
\* Program constants.
maxReconnectAttempts == 5
BaseDelayMs == 1000
MaxDelayMs == 30000
CleanCloseCode == 1000
NoStatusCode == 1005
AbnormalCode == 1006
PolicyViolationCode == 1008
UnauthorizedCode == 4001

NULL == "<null>"

\* The value of inputRef while ChatInput has constructed no socket.
NoSocket == [channelId |-> NULL, readyState |-> "CLOSED"]

\* Error strings the hook exposes.
ErrInvalidChannel == "Invalid channel ID"
ErrNotAuthenticated == "Not authenticated"
ErrNotAuthorized == "Not authorized to access this channel"
ErrCouldNotReconnect == "Could not reconnect to chat. Please refresh the page."
ErrCreate == "Failed to create WebSocket connection"
ErrSocket == "WebSocket error: {\"isTrusted\":true}"
ErrNotConnected == "WebSocket not connected"
ErrSend == "Failed to send message"

-----------------------------------------------------------------------------
\* Inputs.
NotMounted == "<not mounted>"
AllChannelIds == {NULL, "", "undefined", "general", "random", "a#b"}
ChannelIds == CASE scope = "retry" -> {"general"}
                [] scope = "switch" -> {NULL, "general", "random"}
                [] scope = "chat" -> {NULL, "general"}
                [] scope = "inbox" -> {NULL, "general"}
                [] scope = "auth" -> {"general"}
                [] scope = "anon" -> {"general", "random"}
                [] scope = "app" -> {"general", "random"}
                [] OTHER -> {NULL, "", "undefined", "general", "a#b"}
AllTokens == {NULL, "t1", "t2"}
Tokens == CASE scope = "auth" -> {"t1", "t2"}
            [] scope = "anon" -> {NULL, "t1"}
            [] OTHER -> {"t1"}
CloseCodes == {CleanCloseCode, NoStatusCode, AbnormalCode, PolicyViolationCode, UnauthorizedCode}

\* The closure codes by what the close event means to the peer: the two codes
\* that reject the credential, and the codes of a closure that is not clean.
RejectionCodes == {UnauthorizedCode, PolicyViolationCode}
RetriableCodes == CloseCodes \ (RejectionCodes \cup {CleanCloseCode})

\* An identifier the envelope does not carry (data.id is undefined).
NoId == "<absent>"
Ids == {"m1", "m2"}
Kinds == {"message", "media", "join", "disconnect", "typing"}

\* event.data of an inbound frame: text that is not JSON, the JSON text null, a
\* JSON scalar, or a JSON object with the fields the handler reads.
Envelope(kind, id, media) == [json |-> "object", type |-> kind, id |-> id, media_url |-> media]
Envelopes == {Envelope(k, i, m) : k \in Kinds, i \in Ids \cup {NoId}, m \in BOOLEAN}
Malformed == {[json |-> "invalid"], [json |-> "null"], [json |-> "number"]}
Frames == CASE scope = "inbox" -> Envelopes \cup Malformed
            [] scope = "chat" -> {Envelope("message", "m1", FALSE)}
            [] scope = "app" -> {Envelope("message", "m1", FALSE)}
            [] OTHER -> {}

\* The argument of sendMessage: a string, an object, or an object JSON.stringify
\* rejects (a cycle).
AllPayloads == {[t |-> "string", v |-> "hi"], [t |-> "object", v |-> "{\"content\":\"yo\"}"],
                [t |-> "cyclic", v |-> ""]}
Payloads == CASE scope = "edge" -> AllPayloads
              [] scope = "chat" -> {[t |-> "string", v |-> "hi"]}
              [] OTHER -> {}

-----------------------------------------------------------------------------
\* The closure of one effect run (lines 69-73): the channel and token it captured,
\* its retry counter and its timer (0: none pending, else the delay in ms).
\* The other fields record the closure's history: disposed, its cleanup has run,
\* and disposedIn, what it was doing then; closures, the closures with a
\* retriable code in a row, with no open in between; unauthorized, it has seen a
\* closure with a rejection code.
NewEffect(ch, tok) ==
    [channelId |-> ch, token |-> tok, reconnectAttempts |-> 0, reconnectTimeout |-> 0,
     disposed |-> FALSE, disposedIn |-> "", closures |-> 0, unauthorized |-> FALSE]

\* A WebSocket (line 79). closing: how close() was called on it, if it was.
\* wasOpen, stale, late, provided, dropped record history: it has opened; its
\* effect's cleanup had run when it was constructed; its effect had seen an
\* unauthorized closure; the token getToken would have returned when it was
\* constructed; a malformed frame has arrived on it.
NewSocket(e, effs) ==
    [eff |-> e, readyState |-> "CONNECTING", closing |-> "none", sent |-> <<>>,
     wasOpen |-> FALSE, stale |-> effs[e].disposed, late |-> effs[e].unauthorized,
     provided |-> storedToken, dropped |-> FALSE]

Min(a, b) == IF a < b THEN a ELSE b

Pow2Linear(n) == n + 1

RECURSIVE Pow2(_)
Pow2(n) == IF n = 0 THEN 1 ELSE 2 * Pow2(n - 1)

DelayUncapped(attempts) == BaseDelayMs * Pow2(attempts)

\* line 153
Delay(attempts) == Min(BaseDelayMs * Pow2(attempts), MaxDelayMs)

IsUnauthorizedVendorOnly(code) == code = UnauthorizedCode

\* line 146
IsUnauthorized(code) == code = UnauthorizedCode \/ code = PolicyViolationCode

ShouldReconnectOffByOne(attempts, code) ==
    attempts + 1 < maxReconnectAttempts /\ code # CleanCloseCode

\* line 152
ShouldReconnect(attempts, code) == attempts < maxReconnectAttempts /\ code # CleanCloseCode

NextAttemptStuck(attempts) == attempts

\* line 159
NextAttempt(attempts) == attempts + 1

\* line 162
CeilingReached(attempts) == attempts >= maxReconnectAttempts

IsDuplicateNever(ledger, id) == FALSE

\* line 101
IsDuplicate(ledger, id) == id \in ledger

ClearTimeoutSkipped(timer) == timer

\* line 181
ClearTimeout(timer) == 0

ResetAttemptsSkipped(attempts) == attempts

\* line 89
ResetAttempts(attempts) == 0

ClearLedgerSkipped(ledger) == ledger

\* line 16
ClearLedger(ledger) == {}

NotOpenNullOnly(ref, socks) == ref = 0

\* line 189
NotOpen(ref, socks) == ref = 0 \/ socks[ref].readyState # "OPEN"

\* `new WebSocket(url)` throws a SyntaxError for a URL with a fragment.
UrlThrows(ch) == ch = "a#b"

\* A state update of an unmounted component is dropped.
SetState(old, new) == IF mounted THEN new ELSE old

\* WebSocket.close(): starts the closing handshake of an open socket, fails a
\* connecting one, and does nothing to a closing or closed one.
CloseSocket(socks, i, how) ==
    IF socks[i].readyState = "CONNECTING"
    THEN [socks EXCEPT ![i].readyState = "CLOSING", ![i].closing = "fail"]
    ELSE IF socks[i].readyState = "OPEN"
    THEN [socks EXCEPT ![i].readyState = "CLOSING", ![i].closing = how]
    ELSE socks

\* The codes the close event of a socket can carry. A connection that was never
\* established closes with 1006; an established one closes with the code of the
\* peer's Close frame (1005 when it has none), or with 1006 when it is lost.
CodesOf(sock) ==
    IF sock.readyState = "CONNECTING" \/ sock.closing = "fail" THEN {AbnormalCode}
    ELSE IF sock.closing = "clean" THEN CloseCodes \ {NoStatusCode}
    ELSE IF sock.closing = "nocode" THEN CloseCodes \ {CleanCloseCode}
    ELSE CloseCodes

\* What the controller of an effect is doing, for the record of its cleanup.
PhaseOf(e, effs, socks) ==
    IF effs[e].reconnectTimeout # 0 THEN "reconnecting"
    ELSE IF \E i \in 1..Len(socks) : socks[i].eff = e /\ socks[i].readyState = "OPEN" THEN "open"
    ELSE IF \E i \in 1..Len(socks) : socks[i].eff = e /\ socks[i].readyState = "CONNECTING" THEN "connecting"
    ELSE "stopped"

-----------------------------------------------------------------------------
Init ==
    /\ scope \in Scopes
    /\ channelId = NotMounted
    /\ mounted = TRUE
    /\ binds = 0
    /\ storedToken \in Tokens
    /\ messages = <<>>
    /\ isConnected = FALSE
    /\ error = NULL
    /\ socketRef = 0
    /\ processedMessageIds = {}
    /\ effects = <<>>
    /\ cleanup = 0
    /\ sockets = <<>>
    /\ ret = NULL
    /\ inbound = "none"
    /\ attempt = <<0, 0>>
    /\ delay = <<>>
    /\ appMessages = <<>>
    /\ fetches = {}
    /\ inputRef = NoSocket

\* The cleanup function (lines 179-185), applied to the registered effect.
CleanupEffects ==
    IF cleanup = 0 THEN effects
    ELSE [effects EXCEPT ![cleanup].reconnectTimeout = ClearTimeout(@),
                         ![cleanup].disposed = TRUE,
                         ![cleanup].disposedIn = PhaseOf(cleanup, effects, sockets)]

CleanupSocketsSkipped == sockets

CleanupSockets ==
    IF cleanup = 0 \/ socketRef = 0 THEN sockets
    ELSE CloseSocket(sockets, socketRef, "clean")

\* connectWebSocket (lines 74-173) of effect e, on the given effects and sockets.
ConnectWebSocket(e, effs, socks) ==
    /\ effects' = effs
    /\ IF UrlThrows(effs[e].channelId)
       THEN /\ sockets' = socks
            /\ socketRef' = socketRef
            /\ error' = SetState(error, ErrCreate)
            /\ isConnected' = SetState(isConnected, FALSE)
       ELSE /\ sockets' = Append(socks, NewSocket(e, effs))
            /\ socketRef' = Len(socks) + 1
            /\ UNCHANGED <<error, isConnected>>

\* The effect of lines 13-186 runs for a new channelId: the previous effect's
\* cleanup, then the effect body.
BindHook(ch) ==
    /\ mounted
    /\ ch \in ChannelIds
    /\ ch # channelId
    /\ binds < MaxBinds
    /\ binds' = binds + 1
    /\ channelId' = ch
    /\ messages' = <<>>
    /\ processedMessageIds' = ClearLedger(processedMessageIds)
    /\ UNCHANGED <<scope, mounted, storedToken, ret, inbound, attempt, delay>>
    /\ IF ch \in {NULL, ""}
       THEN /\ isConnected' = FALSE
            /\ effects' = CleanupEffects
            /\ sockets' = CleanupSockets
            /\ cleanup' = 0
            /\ UNCHANGED <<error, socketRef>>
       ELSE IF ch = "undefined"
       THEN /\ error' = ErrInvalidChannel
            /\ isConnected' = FALSE
            /\ effects' = CleanupEffects
            /\ sockets' = CleanupSockets
            /\ cleanup' = 0
            /\ UNCHANGED socketRef
       ELSE IF storedToken = NULL
       THEN /\ error' = ErrNotAuthenticated
            /\ effects' = CleanupEffects
            /\ sockets' = CleanupSockets
            /\ cleanup' = 0
            /\ UNCHANGED <<isConnected, socketRef>>
       ELSE /\ Len(sockets) < MaxSockets
            /\ cleanup' = Len(effects) + 1
            /\ ConnectWebSocket(Len(effects) + 1,
                                Append(CleanupEffects, NewEffect(ch, storedToken)),
                                IF socketRef = 0 THEN CleanupSockets
                                ELSE CloseSocket(CleanupSockets, socketRef, "nocode"))

\* The hook on its own: the components that use it are not part of the behaviour.
Bind(ch) == BindHook(ch) /\ UNCHANGED appVars

\* The component unmounts: the cleanup runs and no effect follows.
Unmount ==
    /\ mounted
    /\ binds > 0
    /\ mounted' = FALSE
    /\ effects' = CleanupEffects
    /\ sockets' = CleanupSockets
    /\ cleanup' = 0
    /\ UNCHANGED <<scope, channelId, binds, storedToken, messages, isConnected, error,
                   socketRef, processedMessageIds, ret, inbound, attempt, delay, appVars>>

\* The auth collaborator stores, replaces or removes the credential.
SetToken(tok) ==
    /\ tok \in Tokens
    /\ tok # storedToken
    /\ storedToken' = tok
    /\ UNCHANGED <<scope, channelId, mounted, binds, messages, isConnected, error,
                   socketRef, processedMessageIds, effects, cleanup, sockets, ret, inbound, attempt, delay, appVars>>

\* JSON.stringify({ token }) of line 85.
AuthFrame(tok) == "{\"token\":\"" \o tok \o "\"}"

\* socket.onopen (lines 81-90).
OnOpen(s) ==
    /\ s \in 1..Len(sockets)
    /\ sockets[s].readyState = "CONNECTING"
    /\ LET e == sockets[s].eff IN
       /\ sockets' = [sockets EXCEPT ![s].readyState = "OPEN", ![s].wasOpen = TRUE,
                                     ![s].sent = Append(@, AuthFrame(effects[e].token))]
       /\ isConnected' = SetState(isConnected, TRUE)
       /\ error' = SetState(error, NULL)
       /\ effects' = [effects EXCEPT ![e].reconnectAttempts = ResetAttempts(@),
                                     ![e].closures = 0]
    /\ UNCHANGED <<scope, channelId, mounted, binds, storedToken, messages, socketRef,
                   processedMessageIds, cleanup, ret, inbound, attempt, delay, appVars>>

NormalizedAsReported(data) == data

\* What the handler does with a parsed envelope of kind message or media whose
\* identifier is new (lines 105-117): the entry appended to the list.
Normalized(data) ==
    IF data.media_url THEN [data EXCEPT !.type = "media"] ELSE data

\* JSON.parse (line 95) throws on text that is not JSON, and reading data.type
\* (line 99) throws on null: both are caught at line 124.
Throws(frame) == frame.json = "invalid" \/ frame.json = "null"

IsMessageKindOrJoin(kind) == kind \in {"message", "media", "join"}

\* line 99
IsMessageKind(kind) == kind = "message" \/ kind = "media"

OnParseErrorExposed(err) == "Error parsing WebSocket message"

\* The catch block of lines 124-126 logs and leaves the exposed error as it is.
OnParseError(err) == err

\* socket.onmessage (lines 92-127). inbound records the branch taken: the entry was
\* appended, logged as a duplicate, logged as a join/disconnect notice, ignored,
\* or the handler caught an error.
OnMessageHook(s, frame) ==
    /\ s \in 1..Len(sockets)
    /\ sockets[s].readyState = "OPEN"
    /\ frame \in Frames
    /\ sockets' = [sockets EXCEPT ![s].dropped = @ \/ frame \in Malformed]
    /\ error' = IF Throws(frame) THEN OnParseError(error) ELSE error
    /\ IF Throws(frame)
       THEN /\ inbound' = "error"
            /\ UNCHANGED <<messages, processedMessageIds>>
       ELSE IF frame.json = "object" /\ IsMessageKind(frame.type)
       THEN IF ~IsDuplicate(processedMessageIds, frame.id)
            THEN /\ Len(messages) < MaxList
                 /\ processedMessageIds' = processedMessageIds \cup {frame.id}
                 /\ messages' = SetState(messages, Append(messages, Normalized(frame)))
                 /\ inbound' = "appended"
            ELSE /\ inbound' = "duplicate"
                 /\ UNCHANGED <<messages, processedMessageIds>>
       ELSE IF frame.json = "object" /\ (frame.type = "join" \/ frame.type = "disconnect")
       THEN /\ inbound' = "notice"
            /\ UNCHANGED <<messages, processedMessageIds>>
       ELSE /\ inbound' = "ignored"
            /\ UNCHANGED <<messages, processedMessageIds>>
    /\ UNCHANGED <<scope, channelId, mounted, binds, storedToken, isConnected,
                   socketRef, effects, cleanup, ret, attempt, delay>>

OnMessage(s, frame) == OnMessageHook(s, frame) /\ UNCHANGED appVars

\* socket.onerror (lines 129-139) when the connection failed, then socket.onclose
\* (lines 141-165): both events are fired by one task.
OnClose(s, code, failed) ==
    /\ s \in 1..Len(sockets)
    /\ sockets[s].readyState # "CLOSED"
    /\ code \in CodesOf(sockets[s])
    /\ failed \in BOOLEAN
    /\ failed => code = AbnormalCode
    /\ sockets' = [sockets EXCEPT ![s].readyState = "CLOSED", ![s].closing = "none",
                                  ![s].sent = <<>>]
    /\ isConnected' = SetState(isConnected, FALSE)
    /\ LET e == sockets[s].eff
           attempts == effects[e].reconnectAttempts
           afterError == IF failed THEN ErrSocket ELSE error
           noted == [effects EXCEPT ![e].closures = IF code \in RetriableCodes THEN @ + 1 ELSE 0,
                                    ![e].unauthorized = @ \/ code \in RejectionCodes]
       IN IF IsUnauthorized(code)
          THEN /\ error' = SetState(error, ErrNotAuthorized)
               /\ effects' = noted
          ELSE IF ShouldReconnect(attempts, code)
          THEN /\ error' = SetState(error, afterError)
               /\ effects' = [noted EXCEPT ![e].reconnectTimeout = Delay(attempts)]
          ELSE IF CeilingReached(attempts)
          THEN /\ error' = SetState(error, ErrCouldNotReconnect)
               /\ effects' = noted
          ELSE /\ error' = SetState(error, afterError)
               /\ effects' = noted
    /\ UNCHANGED <<scope, channelId, mounted, binds, storedToken, messages, socketRef,
                   processedMessageIds, cleanup, ret, inbound, attempt, delay, appVars>>

\* The reconnect timer of effect e fires (lines 158-161).
TimerFires(e) ==
    /\ e \in 1..Len(effects)
    /\ effects[e].reconnectTimeout # 0
    /\ Len(sockets) < MaxSockets
    /\ ConnectWebSocket(e,
                        [effects EXCEPT ![e].reconnectTimeout = 0,
                                        ![e].reconnectAttempts = NextAttempt(@)],
                        sockets)
    /\ UNCHANGED <<scope, channelId, mounted, binds, storedToken, messages,
                   processedMessageIds, cleanup, ret, inbound, attempt, delay, appVars>>

StringifyRaw(content) == content.v

\* line 197
Stringify(content) ==
    IF content.t = "string" THEN "{\"content\":\"" \o content.v \o "\"}" ELSE content.v

\* sendMessage (lines 188-206).
SendMessage(content) ==
    /\ mounted
    /\ content \in Payloads
    /\ IF NotOpen(socketRef, sockets)
       THEN /\ error' = ErrNotConnected
            /\ ret' = FALSE
            /\ UNCHANGED sockets
       ELSE IF content.t = "cyclic"
       THEN /\ error' = ErrSend
            /\ ret' = FALSE
            /\ UNCHANGED sockets
       ELSE /\ Len(sockets[socketRef].sent) < MaxSent
            /\ sockets' = [sockets EXCEPT ![socketRef].sent = Append(@, Stringify(content))]
            /\ ret' = TRUE
            /\ UNCHANGED error
    /\ UNCHANGED <<scope, channelId, mounted, binds, storedToken, messages, isConnected,
                   socketRef, processedMessageIds, effects, cleanup, inbound, attempt, delay, appVars>>

Next ==
    \/ \E ch \in AllChannelIds : Bind(ch)
    \/ Unmount
    \/ \E tok \in AllTokens : SetToken(tok)
    \/ \E s \in 1..Len(sockets) : OnOpen(s)
    \/ \E s \in 1..Len(sockets) : \E frame \in Envelopes \cup Malformed : OnMessage(s, frame)
    \/ \E s \in 1..Len(sockets) : \E code \in CloseCodes : \E failed \in BOOLEAN :
          OnClose(s, code, failed)
    \/ \E e \in 1..Len(effects) : TimerFires(e)
    \/ \E content \in AllPayloads : SendMessage(content)

Spec == Init /\ [][Next]_vars

-----------------------------------------------------------------------------
\* The backoff calculation of line 153 on its own, for any two attempt numbers.
MaxAttempt == 20

InitDelay ==
    /\ scope = "retry"
    /\ channelId = NotMounted
    /\ mounted = TRUE
    /\ binds = 0
    /\ storedToken = "t1"
    /\ messages = <<>>
    /\ isConnected = FALSE
    /\ error = NULL
    /\ socketRef = 0
    /\ processedMessageIds = {}
    /\ effects = <<>>
    /\ cleanup = 0
    /\ sockets = <<>>
    /\ ret = NULL
    /\ inbound = "none"
    /\ attempt \in (0..MaxAttempt) \X (0..MaxAttempt)
    /\ delay = <<>>
    /\ appMessages = <<>>
    /\ fetches = {}
    /\ inputRef = NoSocket

ComputeDelay ==
    /\ delay = <<>>
    /\ delay' = <<Delay(attempt[1]), Delay(attempt[2])>>
    /\ UNCHANGED <<scope, hookVars, attempt, appVars>>

NextDelay == ComputeDelay

SpecDelay == InitDelay /\ [][NextDelay]_vars

-----------------------------------------------------------------------------
\* The components that use the hook: ChatPage renders ChatMessages and ChatInput
\* for the selected text channel, and each of the two calls useWebSocket with
\* the channel's id.

\* The stored message fetchMessages returns for a channel.
HistoryId(ch) == "h-" \o ch
Stored(ch) == Envelope("message", HistoryId(ch), FALSE)

\* What fetchMessages(ch) can resolve to: the stored messages of the channel,
\* without or with the message that was also delivered live.
Histories(ch) == {<<Stored(ch)>>, <<Stored(ch), Envelope("message", "m1", FALSE)>>}

\* The updater of the merge effect (create-channel-dialog.tsx lines 472-495).
Merge(prev, ws) ==
    IF Len(ws) > 0
    THEN prev \o SelectSeq(ws, LAMBDA msg : \A i \in 1..Len(prev) : prev[i].id # msg.id)
    ELSE prev

InitApp ==
    /\ scope = "app"
    /\ channelId = NotMounted
    /\ mounted = TRUE
    /\ binds = 0
    /\ storedToken = "t1"
    /\ messages = <<>>
    /\ isConnected = FALSE
    /\ error = NULL
    /\ socketRef = 0
    /\ processedMessageIds = {}
    /\ effects = <<>>
    /\ cleanup = 0
    /\ sockets = <<>>
    /\ ret = NULL
    /\ inbound = "none"
    /\ attempt = <<0, 0>>
    /\ delay = <<>>
    /\ appMessages = <<>>
    /\ fetches = {}
    /\ inputRef = NoSocket

\* handleChannelSelect (part_005 lines 91-94): ChatMessages and ChatInput render
\* with the new channel. In ChatMessages the effect of its useWebSocket
\* instance runs, the load effect (lines 437-468) calls fetchMessages, and the
\* merge effect (lines 470-497) runs with the wsMessages of this render, those
\* of the previous channel. In ChatInput the effect of its own useWebSocket
\* instance closes its socket and constructs one for the new channel.
SelectChannel(ch) ==
    /\ BindHook(ch)
    /\ fetches' = fetches \cup {[channelId |-> ch, n |-> binds + 1]}
    /\ appMessages' = Merge(appMessages, messages)
    /\ inputRef' = [channelId |-> ch, readyState |-> "CONNECTING"]

\* onmessage of the socket of ChatMessages, and the merge effect after the
\* render that sees the new wsMessages.
LiveMessage(s, frame) ==
    /\ OnMessageHook(s, frame)
    /\ appMessages' = IF messages' # messages THEN Merge(appMessages, messages')
                      ELSE appMessages
    /\ UNCHANGED <<fetches, inputRef>>

\* A fetchMessages call resolves (lines 449-450): the list is replaced by what
\* it returned, whatever channel is selected by now.
FetchResolves(f, messageList) ==
    /\ f \in fetches
    /\ messageList \in Histories(f.channelId)
    /\ fetches' = fetches \ {f}
    /\ appMessages' = messageList
    /\ UNCHANGED <<scope, hookVars, delayVars, inputRef>>

\* onopen of the socket of ChatInput.
InputOpens ==
    /\ inputRef.readyState = "CONNECTING"
    /\ inputRef' = [inputRef EXCEPT !.readyState = "OPEN"]
    /\ UNCHANGED <<scope, hookVars, delayVars, appMessages, fetches>>

NextApp ==
    \/ \E ch \in AllChannelIds : SelectChannel(ch)
    \/ \E s \in 1..Len(sockets) : OnOpen(s)
    \/ \E s \in 1..Len(sockets) : \E frame \in Envelopes : LiveMessage(s, frame)
    \/ \E f \in fetches : \E messageList \in Histories(f.channelId) : FetchResolves(f, messageList)
    \/ InputOpens

SpecApp == InitApp /\ [][NextApp]_vars

-----------------------------------------------------------------------------
\* Properties.

SocketIds == 1..Len(sockets)
EffectIds == 1..Len(effects)

\* The sockets of effect e, and the last one it constructed.
SocketsOf(e) == {s \in SocketIds : sockets[s].eff = e}
LastSocketOf(e) == CHOOSE s \in SocketsOf(e) : \A t \in SocketsOf(e) : t <= s

\* The state of the controller of effect e.
Reconnecting(e) == effects[e].reconnectTimeout # 0
Connecting(e) == \E s \in SocketsOf(e) : sockets[s].readyState = "CONNECTING"
Open(e) == \E s \in SocketsOf(e) : sockets[s].readyState = "OPEN"
Failed(e) == ~Reconnecting(e) /\ \A s \in SocketsOf(e) : sockets[s].readyState = "CLOSED"

\* The controller of the current subscription is open.
ControllerOpen == cleanup # 0 /\ Open(cleanup)

\* C1: the visible message list holds each identifier at most once, and every
\* identifier in it is in the dedup ledger.
C1_DedupOnce ==
    /\ \A i, j \in 1..Len(messages) : i # j => messages[i].id # messages[j].id
    /\ \A i \in 1..Len(messages) : messages[i].id \in processedMessageIds

\* An envelope whose identifier was in the ledger has been dropped, on a
\* reconnect Connection of the subscription that received it first.
C1_Witness ==
    /\ inbound = "duplicate"
    /\ Len(messages) = 1
    /\ cleanup # 0
    /\ Cardinality(SocketsOf(cleanup)) >= 2
    /\ Open(cleanup)

\* C2: once the channel has changed, no Connection is constructed by the effect
\* of the previous channel, and no reconnect timer of that effect is pending.
C2_NoStaleConnection ==
    mounted =>
        /\ \A s \in SocketIds : ~sockets[s].stale
        /\ \A e \in EffectIds : effects[e].disposed => ~Reconnecting(e)

\* C3: an effect whose cleanup ran while its reconnect timer was pending has no
\* timer pending afterwards and constructs no Connection afterwards.
C3_CancelledWhileReconnecting ==
    \A e \in EffectIds :
        effects[e].disposed /\ effects[e].disposedIn = "reconnecting" =>
            /\ ~Reconnecting(e)
            /\ \A s \in SocketsOf(e) : ~sockets[s].stale

\* A subscription was torn down while reconnecting, and a Connection was
\* constructed after that.
C3_Witness ==
    \E e \in EffectIds :
        /\ effects[e].disposed
        /\ effects[e].disposedIn = "reconnecting"
        /\ \E s \in SocketIds : sockets[s].eff # e /\ s > LastSocketOf(e)

\* C4 as stated: after 1 to 4 abnormal closures in a row the controller of the
\* current subscription is reconnecting or connecting, after the 5th it is failed.
C4_FailedAtFive ==
    cleanup # 0 =>
        /\ effects[cleanup].closures \in 1..4 => Reconnecting(cleanup) \/ Connecting(cleanup)
        /\ effects[cleanup].closures = 5 => Failed(cleanup)

\* C4 amended: after 1 to 5 abnormal closures in a row the controller of the
\* current subscription is reconnecting or connecting; after the 6th it is
\* failed, and the 6th closure exposes the could-not-reconnect error and
\* schedules no reconnect.
C4_FailedAtSix ==
    /\ [](cleanup # 0 =>
            /\ effects[cleanup].closures \in 1..5 =>
                  Reconnecting(cleanup) \/ Connecting(cleanup)
            /\ effects[cleanup].closures >= 6 => Failed(cleanup))
    /\ [][cleanup # 0 /\ effects[cleanup].closures = 5
            /\ cleanup' = cleanup /\ effects'[cleanup].closures = 6
          => error' = ErrCouldNotReconnect /\ effects'[cleanup].reconnectTimeout = 0]_vars

\* The initial Connection and five reconnect Connections have closed abnormally.
C4_Witness ==
    /\ cleanup # 0
    /\ effects[cleanup].closures = 6
    /\ Failed(cleanup)
    /\ error = ErrCouldNotReconnect

\* C5: a closure with code 4001 or 1008 sets the connected flag to false and the
\* error to the not-authorized reason and leaves the controller with no
\* reconnect timer, and the controller constructs no Connection afterwards.
C5_UnauthorizedIsTerminal ==
    /\ [][\A s \in SocketIds : \A code \in RejectionCodes :
            OnClose(s, code, FALSE) =>
                /\ mounted => ~isConnected' /\ error' = ErrNotAuthorized
                /\ effects'[sockets[s].eff].reconnectTimeout = 0]_vars
    /\ [](\A s \in SocketIds : ~sockets[s].late)
    /\ [](\A e \in EffectIds : effects[e].unauthorized => Failed(e))

\* A reconnect Connection was closed with a rejection code.
C5_Witness ==
    \E e \in EffectIds :
        /\ effects[e].unauthorized
        /\ Cardinality(SocketsOf(e)) >= 2
        /\ error = ErrNotAuthorized
        /\ ~isConnected

\* C6: a call of sendMessage while the controller of the current subscription is
\* not open returns false and writes to no socket.
C6_NoSendUnlessOpen ==
    [][\A content \in AllPayloads :
          SendMessage(content) /\ ~ControllerOpen => ret' = FALSE /\ sockets' = sockets]_vars

\* C7: right after every effect run the visible list and the ledger are empty.
C7_EmptyAfterRebind ==
    [][\A ch \in AllChannelIds :
          Bind(ch) => messages' = <<>> /\ processedMessageIds' = {}]_vars

\* An entry was appended on one subscription, and the channel has changed since.
C7_Witness ==
    /\ binds >= 2
    /\ inbound = "appended"
    /\ messages = <<>>
    /\ processedMessageIds = {}

\* C8: a closure with code 1000 schedules no reconnect, and once the cleanup of
\* an effect has run no reconnect timer of that effect is pending.
C8_NoTimerAfterTeardown ==
    /\ [][\A s \in SocketIds :
            OnClose(s, CleanCloseCode, FALSE) =>
                effects'[sockets[s].eff].reconnectTimeout = 0]_vars
    /\ [](\A e \in EffectIds : effects[e].disposed => effects[e].reconnectTimeout = 0)

\* C9: the delay for attempts 0..5 is 1, 2, 4, 8, 16, 30 units of 1000 ms, it
\* does not decrease as the attempt number grows, and it is at most 30 units.
C9_DelayTable ==
    delay # <<>> =>
        /\ attempt[1] <= 5 =>
              delay[1] = 1000 * <<1, 2, 4, 8, 16, 30>>[attempt[1] + 1]
        /\ attempt[1] <= attempt[2] => delay[1] <= delay[2]
        /\ delay[1] <= 30 * 1000

\* The delay of attempt 5, the first one the ceiling cuts, has been computed.
C9_Witness == delay # <<>> /\ attempt[1] = 5 /\ attempt[2] = 6 /\ delay[1] = 30000

\* C10: an open event sets the attempt counter of its effect to 0 and the error
\* to null, and a reconnect scheduled by the closure of a Connection that had
\* opened has the delay of attempt 0.
C10_OpenResetsBackoff ==
    /\ [][\A s \in SocketIds :
            OnOpen(s) =>
                /\ effects'[sockets[s].eff].reconnectAttempts = 0
                /\ mounted => error' = NULL]_vars
    /\ [](\A e \in EffectIds :
            Reconnecting(e) /\ sockets[LastSocketOf(e)].wasOpen =>
                effects[e].reconnectTimeout = 1000)

\* A reconnect Connection opened and closed abnormally, and the next reconnect
\* is scheduled.
C10_Witness ==
    \E e \in EffectIds :
        /\ Reconnecting(e)
        /\ Cardinality(SocketsOf(e)) >= 2
        /\ sockets[LastSocketOf(e)].wasOpen
        /\ effects[e].reconnectTimeout = 1000

\* C11: while the controller of the current subscription is failed (it has seen
\* an unauthorized closure, or six abnormal closures in a row), it has no
\* reconnect timer and no live Connection, and the connected flag is false.
C11_FailedIsTerminal ==
    cleanup # 0 /\ (effects[cleanup].unauthorized \/ effects[cleanup].closures >= 6) =>
        /\ Failed(cleanup)
        /\ ~isConnected

\* The reconnect Connections of effect e since its last open: the sockets it
\* constructed after the last one that opened, or after its first one.
SinceOpen(e) ==
    {s \in SocketsOf(e) :
        /\ \E t \in SocketsOf(e) : t < s
        /\ \A t \in SocketsOf(e) : sockets[t].wasOpen => t < s}

\* C12 as stated: a controller constructs a bounded number of Connections, the
\* initial one and at most maxReconnectAttempts reconnects, whatever the
\* transport does.
C12_BoundedConnections ==
    \A e \in EffectIds : Cardinality(SocketsOf(e)) <= 1 + maxReconnectAttempts

\* C12 amended: a controller constructs at most maxReconnectAttempts reconnect
\* Connections after its last open (or after its first Connection, when none
\* has opened), and once the last of them has closed it is failed.
C12_BoundedWithoutOpen ==
    \A e \in EffectIds :
        /\ Cardinality(SinceOpen(e)) <= maxReconnectAttempts
        /\ Cardinality(SinceOpen(e)) = maxReconnectAttempts
              /\ sockets[LastSocketOf(e)].readyState = "CLOSED" => Failed(e)

\* A controller has used up its five reconnects, none of which opened, and has
\* stopped.
C12_Witness ==
    \E e \in EffectIds :
        /\ Cardinality(SinceOpen(e)) = maxReconnectAttempts
        /\ \A s \in SocketsOf(e) : ~sockets[s].wasOpen
        /\ Failed(e)

\* C13: nothing is written to a Connection before it opens; the first frame
\* written to a Connection that has opened is the authentication message with
\* the token of its effect, and no later frame is an authentication message.
C13_AuthFirstAndOnce ==
    \A s \in SocketIds :
        /\ ~sockets[s].wasOpen => sockets[s].sent = <<>>
        /\ sockets[s].readyState = "OPEN" =>
              /\ Len(sockets[s].sent) >= 1
              /\ sockets[s].sent[1] = "{\"token\":\"" \o effects[sockets[s].eff].token \o "\"}"
              /\ \A i \in 2..Len(sockets[s].sent) :
                    \A tok \in AllTokens : sockets[s].sent[i] # AuthFrame(tok)

\* A reconnect Connection has opened and a payload was sent on it.
C13_Witness ==
    \E s \in SocketIds :
        /\ sockets[s].readyState = "OPEN"
        /\ Cardinality(SocketsOf(sockets[s].eff)) >= 2
        /\ Len(sockets[s].sent) = 2
        /\ ret = TRUE

\* C14: the authentication message of every Connection carries the token the
\* credential provider held when the Connection was constructed.
C14_TokenAtConnectTime ==
    \A s \in SocketIds :
        sockets[s].readyState = "OPEN" =>
            sockets[s].sent[1] = AuthFrame(sockets[s].provided)

\* The channel identifiers the effect does not connect for (lines 18-30).
Unusable == {NULL, "", "undefined"}

C16_NoTokenIsFailed ==
    [][\A ch \in AllChannelIds \ Unusable :
          Bind(ch) /\ storedToken = NULL =>
              /\ Len(sockets') = Len(sockets)
              /\ Len(effects') = Len(effects)
              /\ cleanup' = 0
              /\ error' = ErrNotAuthenticated
              /\ ~isConnected']_vars

\* C17: a frame that is not JSON, or is JSON other than an object, changes
\* nothing: the socket stays open, and the connected flag, the error, the
\* closures with their attempt counters, the ledger and the list are as before.
C17_MalformedDropped ==
    [][\A s \in SocketIds : \A frame \in Malformed :
          OnMessage(s, frame) =>
              /\ \A t \in SocketIds :
                    /\ sockets'[t].readyState = sockets[t].readyState
                    /\ sockets'[t].sent = sockets[t].sent
              /\ sockets'[s].readyState = "OPEN"
              /\ UNCHANGED <<isConnected, error, effects, socketRef,
                             processedMessageIds, messages>>]_vars

\* An envelope was appended to the list on a Connection after a malformed frame
\* had arrived on it.
C17_Witness ==
    \E s \in SocketIds :
        /\ sockets[s].dropped
        /\ sockets[s].readyState = "OPEN"
        /\ inbound = "appended"
        /\ Len(messages) = 1
        /\ isConnected

\* C18: no entry of the visible list lacks an identifier, and the absent
\* identifier is not in the dedup ledger.
C18_NoIdentifierNoEntry ==
    /\ \A i \in 1..Len(messages) : messages[i].id # NoId
    /\ NoId \notin processedMessageIds

\* The frame sendMessage is to write for each payload it can serialize.
Written(content) ==
    CASE content = [t |-> "string", v |-> "hi"] -> "{\"content\":\"hi\"}"
      [] content = [t |-> "object", v |-> "{\"content\":\"yo\"}"] -> "{\"content\":\"yo\"}"

C20_BackoffSchedule ==
    \A e \in EffectIds :
        LET n == effects[e].closures IN
        /\ n <= 1 + maxReconnectAttempts
        /\ Reconnecting(e) =>
              /\ n \in 1..maxReconnectAttempts
              /\ effects[e].reconnectTimeout = 1000 * <<1, 2, 4, 8, 16>>[n]
              /\ Cardinality(SinceOpen(e)) = n - 1
        /\ n >= 1 => Cardinality(SinceOpen(e)) \in {n - 1, n}
        /\ n = 1 + maxReconnectAttempts =>
              Failed(e) /\ Cardinality(SinceOpen(e)) = maxReconnectAttempts

\* The fifth reconnect of a run is pending, 16 units after the fifth closure.
C20_Witness ==
    \E e \in EffectIds :
        /\ Reconnecting(e)
        /\ effects[e].closures = 5
        /\ effects[e].reconnectTimeout = 16000
        /\ Cardinality(SinceOpen(e)) = 4

\* The identifiers of the entries of the visible list.
ListIds == {messages[i].id : i \in 1..Len(messages)}

\* An envelope of kind message or media that carries an identifier.
Identified(frame) ==
    /\ frame.json = "object"
    /\ frame.type \in {"message", "media"}
    /\ frame.id # NoId

\* C21: while the component is mounted the ledger holds exactly the identifiers
\* of the list; an inbound frame appends its envelope to the list when it is an
\* identified message or media envelope whose identifier is not in the list,
\* and leaves the list as it is otherwise; and nothing but an inbound frame or
\* a channel change alters the list.
C21_ListIsFirstOccurrences ==
    /\ [](mounted => processedMessageIds = ListIds)
    /\ [][mounted =>
            \A s \in SocketIds : \A frame \in Envelopes \cup Malformed :
                OnMessage(s, frame) =>
                    messages' = IF Identified(frame) /\ frame.id \notin ListIds
                                THEN Append(messages, Normalized(frame))
                                ELSE messages]_vars
    /\ [][messages' # messages =>
            \/ binds' # binds
            \/ \E frame \in Envelopes : messages' = Append(messages, Normalized(frame))]_vars

\* C22: an envelope of kind join or disconnect changes neither the ledger nor
\* the list, nor the connected flag, the error or any closure's attempt counter.
C22_NoticeChangesNothing ==
    [][\/ UNCHANGED <<processedMessageIds, messages, isConnected, error, effects>>
       \/ \A frame \in Envelopes \cap Frames : frame.type \in {"join", "disconnect"} =>
              \A s \in SocketIds : ~OnMessage(s, frame)]_vars

\* A join or disconnect notice arrived after an envelope had been appended.
C22_Witness ==
    /\ inbound = "notice"
    /\ Len(messages) = 1
    /\ processedMessageIds = ListIds
    /\ isConnected

\* C23 as stated: an envelope that carries a media reference and an identifier
\* not seen before is appended to the list with kind media, whatever kind it
\* reports.
C23_AnyKindWithMediaIsMedia ==
    [][mounted =>
          \A s \in SocketIds : \A frame \in Envelopes :
              frame.media_url /\ frame.id \notin processedMessageIds /\ OnMessage(s, frame) =>
                  messages' = Append(messages, [frame EXCEPT !.type = "media"])]_vars

\* C23 amended: every entry of the list is of kind message or media, and every
\* entry with a media reference is of kind media.
C23_MediaNormalized ==
    \A i \in 1..Len(messages) :
        /\ messages[i].type \in {"message", "media"}
        /\ messages[i].media_url => messages[i].type = "media"

\* The list holds an entry with a media reference and one without, and the last
\* frame was of a kind the handler ignores.
C23_Witness ==
    /\ Len(messages) = 2
    /\ messages[1].media_url /\ messages[1].type = "media"
    /\ ~messages[2].media_url /\ messages[2].type = "message"
    /\ inbound = "ignored"

\* C25: while the component is mounted the connected flag is true exactly when
\* the Connection of the current subscription is open.
C25_ConnectedTracksConnection ==
    mounted => (isConnected <=> ControllerOpen)

\* The timers pending and the transports connecting or open, over every closure
\* of the hook.
PendingTimers == {e \in EffectIds : Reconnecting(e)}
LiveSockets == {s \in SocketIds : sockets[s].readyState \in {"CONNECTING", "OPEN"}}

\* C26: while the component is mounted at most one transport is connecting or
\* open (a fortiori, not closed) and at most one reconnect timer is pending,
\* never both at once, and socketRef is the last Connection the closure of the
\* current subscription constructed.
C26_OneTransportOneTimer ==
    mounted =>
        /\ Cardinality(LiveSockets) + Cardinality(PendingTimers) <= 1
        /\ cleanup # 0 /\ SocketsOf(cleanup) # {} => socketRef = LastSocketOf(cleanup)

\* C27: while the component is mounted an inbound frame alters the list or the
\* ledger only when it arrives on a Connection of the current subscription.
C27_OnlyCurrentChannel ==
    [][mounted =>
          \A s \in SocketIds : \A frame \in Envelopes :
              /\ OnMessage(s, frame)
              /\ (messages' # messages \/ processedMessageIds' # processedMessageIds)
              => cleanup # 0 /\ sockets[s].eff = cleanup]_vars

\* C28: a call of sendMessage that returns true has written to a Connection of
\* the current subscription.
C28_SendToCurrentChannel ==
    [][\A content \in AllPayloads :
          SendMessage(content) /\ ret' = TRUE =>
              cleanup # 0 /\ sockets[socketRef].eff = cleanup]_vars

\* The Connections to the endpoint of channel ch that are connecting or open:
\* those of the hook instance of ChatMessages and that of ChatInput.
ConnectionsTo(ch) ==
    Cardinality({s \in LiveSockets : effects[sockets[s].eff].channelId = ch})
        + (IF inputRef.channelId = ch /\ inputRef.readyState \in {"CONNECTING", "OPEN"}
           THEN 1 ELSE 0)

\* C24: the application holds at most one connecting or open Connection to the
\* endpoint of the selected channel.
C24_OneConnectionPerChannel ==
    ConnectionsTo(channelId) <= 1

\* The identifiers of the entries of the application's list.
AppIds == {appMessages[i].id : i \in 1..Len(appMessages)}

\* C29: once a second channel has been selected and no fetch is outstanding,
\* the application's list holds the stored message of the selected channel and
\* none of another channel.
C29_SeededWithCurrentHistory ==
    binds >= 2 /\ fetches = {} =>
        /\ HistoryId(channelId) \in AppIds
        /\ \A ch \in AllChannelIds \ (Unusable \cup {channelId}) : HistoryId(ch) \notin AppIds

\* C30: every message in the list of the hook of ChatMessages, the live
\* messages of the selected channel, is in the application's list.
C30_LiveMessageStays ==
    \A i \in 1..Len(messages) : messages[i].id \in AppIds

====
